---- MODULE Spec2Model ----
(***************************************************************************)
(* Model of export_gff3_feature.py: the GFF3+FASTA parser (parse_gff3),    *)
(* the extractor (get_sequence / reverse_complement), the formatter        *)
(* (format_fasta) and the dispatch in main.                                *)
(*                                                                         *)
(* A Python str is a sequence of one-character strings, so startswith,     *)
(* strip, split, slicing and join are computed, not assumed.               *)
(***************************************************************************)
EXTENDS Integers, Sequences, FiniteSets, TLC

VARIABLES
    pc,                   \* position of the program: see the actions
    read,                 \* the lines of the file consumed so far (raw)
    features,             \* parse_gff3: features
    fasta_start,          \* parse_gff3: fasta_start
    sequence_data,        \* parse_gff3: sequence_data (id -> list of lines)
    current_sequence_id,  \* parse_gff3: current_sequence_id
    error,                \* the exception that ended the program, if any
    output,               \* main: what print() has written, in order
    i,                    \* main: index of the feature the for loop is at
    call,                 \* arguments of a direct call of a function
    result                \* value returned by that call

vars == <<pc, read, features, fasta_start, sequence_data,
          current_sequence_id, error, output, i, call, result>>

----------------------------------------------------------------------------
(* Bounds of the model *)

MaxLines == 3        \* lines of a file, annotation-centred files
MaxFastaLines == 5   \* lines of a file, sequence-centred files
MaxFeatures == 3     \* features handed to main
MaxSeqLen == 3       \* length of the enumerated sequences for get_sequence
CoordSlack == 2      \* how far coordinates range beyond the sequence ends
MaxFmtLen == 5       \* length of the sequences handed to format_fasta
MaxLineLength == 4   \* largest line_length handed to format_fasta

----------------------------------------------------------------------------
(* Python built-ins used by the program *)

None == <<>>          \* None; identifiers from split()[0] are never empty
NoError == "none"

Min(a, b) == IF a < b THEN a ELSE b
Max(a, b) == IF a > b THEN a ELSE b

IsSpace(c) == c \in {" ", "\t", "\n"}

RECURSIVE lstrip(_)
lstrip(s) == IF s # <<>> /\ IsSpace(Head(s)) THEN lstrip(Tail(s)) ELSE s

RECURSIVE rstrip(_)
rstrip(s) ==
    IF s # <<>> /\ IsSpace(s[Len(s)]) THEN rstrip(SubSeq(s, 1, Len(s) - 1)) ELSE s

\* str.strip(): leading and trailing whitespace removed
strip(s) == rstrip(lstrip(s))

\* str.startswith(prefix)
startswith(s, prefix) ==
    Len(s) >= Len(prefix) /\ SubSeq(s, 1, Len(prefix)) = prefix

\* s[lo:hi] with Python's index normalisation and clamping
slice(s, lo, hi) ==
    LET n == Len(s)
        norm(x) == IF x < 0 THEN Max(x + n, 0) ELSE Min(x, n)
        l == norm(lo)
        h == norm(hi)
    IN  IF l >= h THEN <<>> ELSE SubSeq(s, l + 1, h)

\* str.split(sep) for a one-character separator: every occurrence splits
RECURSIVE split(_, _)
split(s, sep) ==
    IF \E k \in 1..Len(s) : s[k] = sep
    THEN LET k == CHOOSE k \in 1..Len(s) :
                      s[k] = sep /\ \A j \in 1..(k - 1) : s[j] # sep
         IN  <<SubSeq(s, 1, k - 1)>> \o split(SubSeq(s, k + 1, Len(s)), sep)
    ELSE <<s>>

\* str.split(): split on runs of whitespace, no empty tokens
RECURSIVE split_ws(_)
split_ws(s) ==
    LET t == lstrip(s) IN
    IF t = <<>> THEN <<>>
    ELSE LET stops == {k \in 1..Len(t) : IsSpace(t[k])}
             e == IF stops = {} THEN Len(t) + 1
                  ELSE CHOOSE k \in stops : \A j \in stops : k <= j
         IN  <<SubSeq(t, 1, e - 1)>> \o split_ws(SubSeq(t, e, Len(t)))

\* ''.join(list)
RECURSIVE join(_)
join(list) == IF list = <<>> THEN <<>> ELSE Head(list) \o join(Tail(list))

\* '\n'.join(list)
RECURSIVE join_nl(_)
join_nl(list) ==
    IF list = <<>> THEN <<>>
    ELSE IF Len(list) = 1 THEN list[1]
    ELSE list[1] \o <<"\n">> \o join_nl(Tail(list))

Digits == {"0", "1", "2", "3", "4", "5", "6", "7", "8", "9"}

DigitValue(c) ==
    CASE c = "0" -> 0 [] c = "1" -> 1 [] c = "2" -> 2 [] c = "3" -> 3
      [] c = "4" -> 4 [] c = "5" -> 5 [] c = "6" -> 6 [] c = "7" -> 7
      [] c = "8" -> 8 [] c = "9" -> 9

RECURSIVE Decimal(_)
Decimal(ds) ==
    IF ds = <<>> THEN 0
    ELSE 10 * Decimal(SubSeq(ds, 1, Len(ds) - 1)) + DigitValue(ds[Len(ds)])

\* whether int(s) succeeds: optional sign, then digits, whitespace around
int_ok(s) ==
    LET t == strip(s)
        d == IF t # <<>> /\ Head(t) \in {"+", "-"} THEN Tail(t) ELSE t
    IN  d # <<>> /\ \A k \in 1..Len(d) : d[k] \in Digits

\* int(s), where int_ok(s)
int(s) ==
    LET t == strip(s)
        d == IF t # <<>> /\ Head(t) \in {"+", "-"} THEN Tail(t) ELSE t
    IN  IF t # <<>> /\ Head(t) = "-" THEN 0 - Decimal(d) ELSE Decimal(d)

----------------------------------------------------------------------------
(* parse_gff3 *)

FASTA_MARK == <<"#", "#", "F", "A", "S", "T", "A">>

\* the arguments of the run: --type, --attribute, --value
feature_type == <<"g">>
attribute_key == <<"I">>
attribute_value == <<"x">>

\* [attr.split('=') for attr in attributes.split(';')]
attr_pairs(attributes) ==
    LET toks == split(attributes, ";")
    IN  [k \in 1..Len(toks) |-> split(toks[k], "=")]

\* the unpacking `for key, value in ...` raises unless every item has 2 parts
unpack_ok(pairs) == \A k \in 1..Len(pairs) : Len(pairs[k]) = 2

\* {key: value for key, value in pairs}: a later pair replaces an earlier one
attr_dict(pairs) ==
    [key \in {pairs[k][1] : k \in 1..Len(pairs)} |->
        LET last == CHOOSE k \in 1..Len(pairs) :
                        /\ pairs[k][1] = key
                        /\ \A j \in 1..Len(pairs) : pairs[j][1] = key => j <= k
        IN  pairs[last][2]]

\* attr_dict.get(attribute_key) == attribute_value
attr_matches(d) == attribute_key \in DOMAIN d /\ d[attribute_key] = attribute_value

\* (seqid, int(start), int(end), strand)
feature_tuple(parts) == <<parts[1], int(parts[4]), int(parts[5]), parts[7]>>

\* line[1:].split()[0] raises IndexError when nothing follows '>'
header_tokens(line) == split_ws(slice(line, 1, Len(line)))

new_entryKeeping(sd, id) ==
    [k \in DOMAIN sd \cup {id} |-> IF k \in DOMAIN sd THEN sd[k] ELSE <<>>]

\* sequence_data[current_sequence_id] = []
new_entry(sd, id) ==
    [k \in DOMAIN sd \cup {id} |-> IF k = id THEN <<>> ELSE sd[k]]

Raise(exc) ==
    /\ pc' = "raised"
    /\ error' = exc

\* one iteration of `for line in file`, lines 24-55
ParseLine(raw) ==
    /\ pc = "parse"
    /\ read' = Append(read, raw)
    /\ UNCHANGED <<output, i, call, result>>
    /\ LET line == strip(raw) IN
       IF startswith(line, FASTA_MARK)
       THEN /\ fasta_start' = TRUE
            /\ UNCHANGED <<pc, error, features, sequence_data, current_sequence_id>>
       ELSE IF fasta_start
       THEN IF startswith(line, <<">">>)
            THEN IF header_tokens(line) = <<>>
                 THEN /\ Raise("IndexError")
                      /\ UNCHANGED <<features, fasta_start, sequence_data,
                                     current_sequence_id>>
                 ELSE LET id == header_tokens(line)[1] IN
                      /\ current_sequence_id' = id
                      /\ sequence_data' = new_entry(sequence_data, id)
                      /\ UNCHANGED <<pc, error, features, fasta_start>>
            ELSE IF current_sequence_id \notin DOMAIN sequence_data
                 THEN /\ Raise("KeyError")
                      /\ UNCHANGED <<features, fasta_start, sequence_data,
                                     current_sequence_id>>
                 ELSE /\ sequence_data' =
                            [sequence_data EXCEPT ![current_sequence_id] =
                                Append(@, line)]
                      /\ UNCHANGED <<pc, error, features, fasta_start,
                                     current_sequence_id>>
       ELSE LET parts == split(line, "\t") IN
            IF startswith(line, <<"#">>) \/ Len(parts) # 9
                 \/ parts[3] # feature_type
            THEN UNCHANGED <<pc, error, features, fasta_start, sequence_data,
                             current_sequence_id>>
            ELSE IF ~unpack_ok(attr_pairs(parts[9]))
            THEN /\ Raise("ValueError")
                 /\ UNCHANGED <<features, fasta_start, sequence_data,
                                current_sequence_id>>
            ELSE IF ~attr_matches(attr_dict(attr_pairs(parts[9])))
            THEN UNCHANGED <<pc, error, features, fasta_start, sequence_data,
                             current_sequence_id>>
            ELSE IF ~(int_ok(parts[4]) /\ int_ok(parts[5]))
            THEN /\ Raise("ValueError")
                 /\ UNCHANGED <<features, fasta_start, sequence_data,
                                current_sequence_id>>
            ELSE /\ features' = Append(features, feature_tuple(parts))
                 /\ UNCHANGED <<pc, error, fasta_start, sequence_data,
                                current_sequence_id>>

\* end of the file: `return features, sequence_data`, line 57
ParseReturn ==
    /\ pc = "parse"
    /\ pc' = "returned"
    /\ UNCHANGED <<read, features, fasta_start, sequence_data,
                   current_sequence_id, error, output, i, call, result>>

\* state at line 21, before the first line is read
ParseInit ==
    /\ pc = "parse"
    /\ read = <<>>
    /\ features = <<>>
    /\ fasta_start = FALSE
    /\ sequence_data = <<>>
    /\ current_sequence_id = None
    /\ error = NoError
    /\ output = <<>>
    /\ i = 0
    /\ call = <<>>
    /\ result = <<>>

----------------------------------------------------------------------------
(* Input lines *)

TAB == "\t"

\* a 9-column annotation line
GffLine(seqid, ftype, start, end, strand, attributes) ==
    seqid \o <<TAB, "s", TAB>> \o ftype \o <<TAB>> \o start \o <<TAB>> \o end
      \o <<TAB, ".", TAB>> \o strand \o <<TAB, ".", TAB>> \o attributes

L_match     == GffLine(<<"a">>, <<"g">>, <<"2">>, <<"4">>, <<"+">>, <<"I", "=", "x">>)
L_minus     == GffLine(<<"b">>, <<"g">>, <<"1">>, <<"1", "2">>, <<"-">>,
                       <<"N", "=", "n", ";", "I", "=", "x">>)
L_type      == GffLine(<<"a">>, <<"m">>, <<"2">>, <<"4">>, <<"+">>, <<"I">>)
L_value     == GffLine(<<"a">>, <<"g">>, <<"2">>, <<"4">>, <<"+">>, <<"I", "=", "y">>)
L_nokey     == GffLine(<<"a">>, <<"g">>, <<"2">>, <<"4">>, <<"+">>, <<"N", "=", "n">>)
L_noeq      == GffLine(<<"a">>, <<"g">>, <<"2">>, <<"4">>, <<"+">>,
                       <<"I", "=", "x", ";", "N">>)
L_trailing  == GffLine(<<"a">>, <<"g">>, <<"2">>, <<"4">>, <<"+">>,
                       <<"I", "=", "x", ";">>)
L_twoeq     == GffLine(<<"a">>, <<"g">>, <<"2">>, <<"4">>, <<"+">>,
                       <<"I", "=", "x", ";", "N", "=", "a", "=", "b">>)
L_notint    == GffLine(<<"a">>, <<"g">>, <<"z">>, <<"4">>, <<"+">>, <<"I", "=", "x">>)
L_eight     == <<"a", TAB, "s", TAB, "g", TAB, "2", TAB, "4", TAB, ".", TAB, "+",
                 TAB, "I", "=", "x">>
L_comment   == <<"#", "c">>
L_blank     == <<>>
L_fasta     == FASTA_MARK
L_fasta_ws  == FASTA_MARK \o <<" ">>
L_fasta_ext == FASTA_MARK \o <<"-", "n">>
L_header_a  == <<">", "a">>
L_header_ad == <<">", "a", " ", "d">>
L_header_b  == <<">", "b">>
L_header_0  == <<">">>
L_seq1      == <<"A", "C">>
L_seq2      == <<"G">>

\* files centred on the annotation section
GffLines ==
    {L_match, L_minus, L_type, L_value, L_nokey, L_noeq, L_trailing, L_twoeq,
     L_notint, L_eight, L_comment, L_blank, L_fasta, L_fasta_ws, L_fasta_ext,
     L_header_a, L_seq1}

\* files centred on the sequence section
FastaLines ==
    {L_fasta, L_fasta_ext, L_header_a, L_header_ad, L_header_b, L_header_0,
     L_seq1, L_seq2, L_blank}

Init == ParseInit

Next ==
    \/ \E raw \in GffLines : Len(read) < MaxLines /\ ParseLine(raw)
    \/ ParseReturn

Spec == Init /\ [][Next]_vars

NextFasta ==
    \/ \E raw \in FastaLines : Len(read) < MaxFastaLines /\ ParseLine(raw)
    \/ ParseReturn

SpecFasta == Init /\ [][NextFasta]_vars

----------------------------------------------------------------------------
(* reverse_complement, get_sequence, format_fasta *)

Bases == {"A", "T", "C", "G"}

\* complement = {'A': 'T', 'T': 'A', 'C': 'G', 'G': 'C'}
complement == [b \in Bases |->
    CASE b = "A" -> "T" [] b = "T" -> "A" [] b = "C" -> "G" [] b = "G" -> "C"]

\* complement[base] raises KeyError for a base outside the table
reverse_complement_error(seq) ==
    IF \E k \in 1..Len(seq) : seq[k] \notin DOMAIN complement
    THEN "KeyError" ELSE NoError

\* ''.join(complement[base] for base in reversed(seq))
reverse_complement(seq) ==
    [k \in 1..Len(seq) |-> complement[seq[Len(seq) + 1 - k]]]

slicedZeroBased(sd, seqid, start, end) == slice(join(sd[seqid]), start, end)

\* ''.join(sequence_data[seqid])[start-1:end], where seqid is a key
sliced(sd, seqid, start, end) == slice(join(sd[seqid]), start - 1, end)

get_sequence_error(sd, seqid, start, end, strand) ==
    IF seqid \notin DOMAIN sd THEN "KeyError"
    ELSE IF strand = <<"-">>
         THEN reverse_complement_error(sliced(sd, seqid, start, end))
         ELSE NoError

\* the value get_sequence returns, where it raises nothing
get_sequence(sd, seqid, start, end, strand) ==
    IF strand = <<"-">>
    THEN reverse_complement(sliced(sd, seqid, start, end))
    ELSE sliced(sd, seqid, start, end)

\* the default of line_length
DefaultLineLength == 60

\* range(0, len(sequence), 0) raises ValueError
format_fasta_error(line_length) ==
    IF line_length = 0 THEN "ValueError" ELSE NoError

chunksShifted(sequence, line_length) ==
    IF line_length < 0 THEN <<>>
    ELSE [k \in 1..((Len(sequence) + line_length - 1) \div line_length) |->
            slice(sequence, k * line_length, k * line_length + line_length)]

\* sequence[i:i+line_length] for i in range(0, len(sequence), line_length)
chunks(sequence, line_length) ==
    IF line_length < 0 THEN <<>>
    ELSE [k \in 1..((Len(sequence) + line_length - 1) \div line_length) |->
            slice(sequence, (k - 1) * line_length,
                  (k - 1) * line_length + line_length)]

format_fasta(header, sequence, line_length) ==
    <<">">> \o header \o <<"\n">> \o join_nl(chunks(sequence, line_length))

----------------------------------------------------------------------------
(* main, after parse_gff3 has returned *)

\* f"{args.type}:{args.attribute}:{args.value}"
fasta_header ==
    feature_type \o <<":">> \o attribute_key \o <<":">> \o attribute_value

\* f"{args.type}:{args.attribute}={args.value}", the tail of both messages
message_tail ==
    feature_type \o <<":">> \o attribute_key \o <<"=">> \o attribute_value

\* print(format_fasta(header, sequence)) for one feature, or the exception
EmitFeature(feature) ==
    LET e == get_sequence_error(sequence_data, feature[1], feature[2],
                                feature[3], feature[4])
    IN  IF e # NoError
        THEN /\ error' = e
             /\ UNCHANGED output
        ELSE /\ output' = Append(output,
                    [kind |-> "fasta",
                     text |-> format_fasta(fasta_header,
                                get_sequence(sequence_data, feature[1],
                                    feature[2], feature[3], feature[4]),
                                DefaultLineLength)])
             /\ UNCHANGED error

\* lines 120-123
MainNoFeatures ==
    /\ pc = "main"
    /\ features = <<>>
    /\ output' = Append(output, [kind |-> "no_features", text |-> message_tail])
    /\ pc' = "done"
    /\ UNCHANGED <<read, features, fasta_start, sequence_data,
                   current_sequence_id, error, i, call, result>>

MainWarningOmitted ==
    /\ pc = "main"
    /\ Len(features) > 1
    /\ pc' = "loop"
    /\ i' = 1
    /\ UNCHANGED <<read, features, fasta_start, sequence_data,
                   current_sequence_id, error, output, call, result>>

\* lines 124-126
MainWarning ==
    /\ pc = "main"
    /\ Len(features) > 1
    /\ output' = Append(output, [kind |-> "warning", text |-> message_tail])
    /\ pc' = "loop"
    /\ i' = 1
    /\ UNCHANGED <<read, features, fasta_start, sequence_data,
                   current_sequence_id, error, call, result>>

\* one iteration of `for feature in features`, lines 127-131
MainLoop ==
    /\ pc = "loop"
    /\ i <= Len(features)
    /\ EmitFeature(features[i])
    /\ pc' = IF error' # NoError THEN "raised" ELSE "loop"
    /\ i' = i + 1
    /\ UNCHANGED <<read, features, fasta_start, sequence_data,
                   current_sequence_id, call, result>>

\* the for loop is exhausted and main returns
MainLoopEnd ==
    /\ pc = "loop"
    /\ i > Len(features)
    /\ pc' = "done"
    /\ UNCHANGED <<read, features, fasta_start, sequence_data,
                   current_sequence_id, error, output, i, call, result>>

\* lines 132-137
MainSingle ==
    /\ pc = "main"
    /\ Len(features) = 1
    /\ EmitFeature(features[1])
    /\ pc' = IF error' # NoError THEN "raised" ELSE "done"
    /\ UNCHANGED <<read, features, fasta_start, sequence_data,
                   current_sequence_id, i, call, result>>

\* sequences of length 0..n over S
SeqsUpTo(S, n) == UNION {[1..k -> S] : k \in 0..n}

\* features a parse can return: (seqid, start, end, strand)
MainFeatures ==
    {<<<<"a">>, 2, 4, <<"+">>>>, <<<<"a">>, 1, 3, <<"-">>>>,
     <<<<"b">>, 1, 12, <<"-">>>>, <<<<"a">>, 9, 12, <<".">>>>}

\* sequence maps a parse can return
MainSequenceData ==
    {(<<"a">> :> <<<<"A", "C", "G", "T">>, <<"A", "C", "G", "T">>>>),
     (<<"a">> :> <<<<"A", "C", "G", "T">>, <<"A", "C", "G", "T">>>>)
        @@ (<<"b">> :> <<<<"A", "C">>, <<"N", "G">>>>),
     (<<"a">> :> <<<<"G", "G", "C">>>>) @@ (<<"b">> :> <<<<"T", "T">>>>)}

MainInit ==
    /\ pc = "main"
    /\ read = <<>>
    /\ features \in SeqsUpTo(MainFeatures, MaxFeatures)
    /\ fasta_start = FALSE
    /\ sequence_data \in MainSequenceData
    /\ current_sequence_id = None
    /\ error = NoError
    /\ output = <<>>
    /\ i = 0
    /\ call = <<>>
    /\ result = <<>>

NextMain ==
    \/ MainNoFeatures
    \/ MainWarning
    \/ MainLoop
    \/ MainLoopEnd
    \/ MainSingle

SpecMain == MainInit /\ [][NextMain]_vars

----------------------------------------------------------------------------
(* get_sequence called directly *)

ExampleSequence == <<"A", "C", "G", "T", "A", "C", "G", "T">>

ExtractSequences ==
    SeqsUpTo(Bases, MaxSeqLen) \cup {ExampleSequence, <<"A", "N", "T">>}

\* the sequence as the parser stores it: a list of lines
AsLines(s) == <<slice(s, 0, Len(s) \div 2), slice(s, Len(s) \div 2, Len(s))>>

ExtractInit ==
    /\ pc = "call_get_sequence"
    /\ read = <<>>
    /\ features = <<>>
    /\ fasta_start = FALSE
    /\ \E s \in ExtractSequences : sequence_data = (<<"a">> :> AsLines(s))
    /\ current_sequence_id = None
    /\ error = NoError
    /\ output = <<>>
    /\ i = 0
    /\ call \in [seqid : {<<"a">>, <<"b">>},
                 start : (0 - CoordSlack)..(MaxSeqLen + CoordSlack),
                 end : (0 - CoordSlack)..(MaxSeqLen + CoordSlack),
                 strand : {<<"+">>, <<"-">>, <<".">>, <<"?">>}]
    /\ result = <<>>

CallGetSequence ==
    /\ pc = "call_get_sequence"
    /\ LET e == get_sequence_error(sequence_data, call.seqid, call.start,
                                   call.end, call.strand)
       IN  IF e # NoError
           THEN /\ Raise(e)
                /\ UNCHANGED result
           ELSE /\ pc' = "returned"
                /\ result' = get_sequence(sequence_data, call.seqid,
                                          call.start, call.end, call.strand)
                /\ UNCHANGED error
    /\ UNCHANGED <<read, features, fasta_start, sequence_data,
                   current_sequence_id, output, i, call>>

SpecExtract == ExtractInit /\ [][CallGetSequence]_vars

----------------------------------------------------------------------------
(* format_fasta called directly *)

FormatSequences ==
    SeqsUpTo({"A", "C"}, MaxFmtLen)
        \cup {<<"A", "C", "G", "T", "A", "C", "G", "T", "A", "C">>}

FormatInit ==
    /\ pc = "call_format_fasta"
    /\ read = <<>>
    /\ features = <<>>
    /\ fasta_start = FALSE
    /\ sequence_data = <<>>
    /\ current_sequence_id = None
    /\ error = NoError
    /\ output = <<>>
    /\ i = 0
    /\ call \in [header : {<<"h">>, fasta_header},
                 sequence : FormatSequences,
                 line_length : (0 - 1)..MaxLineLength]
    /\ result = <<>>

CallFormatFasta ==
    /\ pc = "call_format_fasta"
    /\ LET e == format_fasta_error(call.line_length)
       IN  IF e # NoError
           THEN /\ Raise(e)
                /\ UNCHANGED result
           ELSE /\ pc' = "returned"
                /\ result' = format_fasta(call.header, call.sequence,
                                          call.line_length)
                /\ UNCHANGED error
    /\ UNCHANGED <<read, features, fasta_start, sequence_data,
                   current_sequence_id, output, i, call>>

SpecFormat == FormatInit /\ [][CallFormatFasta]_vars

----------------------------------------------------------------------------
(* Vocabulary of the properties, stated over the lines read so far *)

Line(j) == strip(read[j])

\* a line the parser treats as the FASTA marker: it begins with ##FASTA
MarkerLike(j) == startswith(Line(j), FASTA_MARK)

\* line j is read with the parser in annotation mode
AnnotationModeAt(j) == \A k \in 1..(j - 1) : ~MarkerLike(k)

\* line j is read with the parser in sequence mode and is not a marker
SequenceModeAt(j) == (\E k \in 1..(j - 1) : MarkerLike(k)) /\ ~MarkerLike(j)

Fields(j) == split(Line(j), "\t")

\* a non-comment line of 9 columns whose type is the requested one
TypeMatching9(j) ==
    /\ ~startswith(Line(j), <<"#">>)
    /\ Len(Fields(j)) = 9
    /\ Fields(j)[3] = feature_type

Tokens(j) == split(Fields(j)[9], ";")

EqCount(tok) == Cardinality({k \in 1..Len(tok) : tok[k] = "="})

FirstEq(tok) == CHOOSE k \in 1..Len(tok) :
                    tok[k] = "=" /\ \A m \in 1..(k - 1) : tok[m] # "="

\* key and value of a token, split on its first `=`
KeyOf(tok) == SubSeq(tok, 1, FirstEq(tok) - 1)
ValueOf(tok) == SubSeq(tok, FirstEq(tok) + 1, Len(tok))

\* the attribute map of line j sends attribute_key to attribute_value
\* (a later token with the same key replaces an earlier one)
KeyHasValue(j) ==
    \E t \in 1..Len(Tokens(j)) :
        /\ EqCount(Tokens(j)[t]) >= 1
        /\ KeyOf(Tokens(j)[t]) = attribute_key
        /\ ValueOf(Tokens(j)[t]) = attribute_value
        /\ \A u \in (t + 1)..Len(Tokens(j)) :
                EqCount(Tokens(j)[u]) >= 1 => KeyOf(Tokens(j)[u]) # attribute_key

\* the record the specification describes for line j
RecordOf(j) ==
    <<Fields(j)[1], int(Fields(j)[4]), int(Fields(j)[5]), Fields(j)[7]>>

Qualifying == {j \in 1..Len(read) :
                  AnnotationModeAt(j) /\ TypeMatching9(j) /\ KeyHasValue(j)}

\* features holds one record per line of S, in file order
FeaturesAre(S) ==
    /\ Len(features) = Cardinality(S)
    /\ \A j \in S : features[Cardinality({k \in S : k <= j})] = RecordOf(j)

\* every token of the attributes of line j holds a `=`, and its start and
\* end columns are integers
WellFormed(j) ==
    /\ \A t \in 1..Len(Tokens(j)) : EqCount(Tokens(j)[t]) >= 1
    /\ int_ok(Fields(j)[4]) /\ int_ok(Fields(j)[5])

----------------------------------------------------------------------------
(* C1 *)

\* C1: the parser is in sequence mode exactly when some earlier line equals
\* ##FASTA after trimming; a longer line that only begins with ##FASTA does
\* not switch the mode.
C1_ModeIffExactMarker ==
    fasta_start <=> \E j \in 1..Len(read) : Line(j) = FASTA_MARK

----------------------------------------------------------------------------
(* C2 *)

\* C2: the feature list holds, in file order, exactly the records of the
\* qualifying annotation-mode lines, and every other annotation-mode line is
\* skipped without an error. Stated for the files whose type-matching
\* annotation lines carry integer coordinates.
C2_FeaturesFromQualifyingLines ==
    (\A j \in 1..Len(read) :
        AnnotationModeAt(j) /\ TypeMatching9(j) =>
            int_ok(Fields(j)[4]) /\ int_ok(Fields(j)[5]))
    => /\ ~(pc = "raised" /\ ~fasta_start)
       /\ pc # "raised" => FeaturesAre(Qualifying)

----------------------------------------------------------------------------
(* C3 *)

IsHeader(j) == SequenceModeAt(j) /\ startswith(Line(j), <<">">>)

\* first whitespace-delimited token after `>`
IdOf(j) ==
    LET s == Line(j)
        b == CHOOSE k \in 2..(Len(s) + 1) :
                /\ k = Len(s) + 1 \/ ~IsSpace(s[k])
                /\ \A m \in 2..(k - 1) : IsSpace(s[m])
        e == CHOOSE k \in b..(Len(s) + 1) :
                /\ k = Len(s) + 1 \/ IsSpace(s[k])
                /\ \A m \in b..(k - 1) : ~IsSpace(s[m])
    IN  SubSeq(s, b, e - 1)

Headers == {j \in 1..Len(read) : IsHeader(j)}

\* the last of the headers H that carries id
LastHeader(H, id) ==
    CHOOSE j \in H : IdOf(j) = id /\ \A k \in H : IdOf(k) = id => k <= j

\* the line after the block of header j: the next header, or end of input
BlockEnd(H, j) ==
    IF \E k \in H : k > j
    THEN CHOOSE k \in H : k > j /\ \A m \in H : m > j => k <= m
    ELSE Len(read) + 1

RECURSIVE ConcatLines(_, _)
ConcatLines(lo, hi) ==
    IF lo > hi THEN <<>> ELSE Line(lo) \o ConcatLines(lo + 1, hi)

RECURSIVE ConcatUnmarked(_, _)
ConcatUnmarked(lo, hi) ==
    IF lo > hi THEN <<>>
    ELSE (IF MarkerLike(lo) THEN <<>> ELSE Line(lo)) \o ConcatUnmarked(lo + 1, hi)

----------------------------------------------------------------------------
(* C4, C9 *)

\* the concatenated sequence of the called identifier
WholeSeq == join(sequence_data[call.seqid])

WatsonCrick(b) == IF b = "A" THEN "T" ELSE IF b = "T" THEN "A"
                  ELSE IF b = "C" THEN "G" ELSE "C"

\* characters start..end of WholeSeq, 1-based, inclusive
Inclusive == [k \in 1..(call.end - call.start + 1) |-> WholeSeq[call.start + k - 1]]

Expected ==
    IF call.strand = <<"-">>
    THEN [k \in 1..Len(Inclusive) |-> WatsonCrick(Inclusive[Len(Inclusive) + 1 - k])]
    ELSE Inclusive

\* C4: for coordinates 1 <= start <= end <= len(WholeSeq) over a sequence of
\* A, T, C, G, get_sequence returns characters start..end of WholeSeq, reversed and
\* complemented on the `-` strand and unchanged on any other strand.
C4_Extraction ==
    /\ (/\ pc # "call_get_sequence"
        /\ call.seqid \in DOMAIN sequence_data
        /\ \A k \in 1..Len(WholeSeq) : WholeSeq[k] \in Bases
        /\ 1 <= call.start /\ call.start <= call.end /\ call.end <= Len(WholeSeq))
       => pc = "returned" /\ result = Expected
    /\ (/\ pc # "call_get_sequence"
        /\ call.seqid \in DOMAIN sequence_data
        /\ WholeSeq = ExampleSequence /\ call.start = 2 /\ call.end = 4)
       => result = IF call.strand = <<"-">> THEN <<"A", "C", "G">>
                    ELSE <<"C", "G", "T">>

\* the example of the specification on the minus strand
C4_Witness ==
    /\ pc = "returned"
    /\ WholeSeq = ExampleSequence
    /\ call.start = 2 /\ call.end = 4 /\ call.strand = <<"-">>
    /\ result = <<"A", "C", "G">>

\* C9: with start < 1 or end > len(WholeSeq), get_sequence ends in a RangeError and
\* returns no sequence.
C9_RangeError ==
    (/\ pc # "call_get_sequence"
     /\ call.seqid \in DOMAIN sequence_data
     /\ (call.start < 1 \/ call.end > Len(WholeSeq)))
    => pc = "raised" /\ error = "RangeError"

----------------------------------------------------------------------------
(* C5 *)

Prefix == <<">">> \o call.header \o <<"\n">>

\* the content lines of the returned text
ContentLines == split(SubSeq(result, Len(Prefix) + 1, Len(result)), "\n")

Wrapped ==
    /\ startswith(result, Prefix)
    /\ \A k \in 1..(Len(ContentLines) - 1) :
          Len(ContentLines[k]) = call.line_length
    /\ Len(ContentLines[Len(ContentLines)]) \in 1..call.line_length
    /\ join(ContentLines) = call.sequence
    /\ result[Len(result)] # "\n"

\* C5 as stated: for every sequence and every line_length >= 1 the text is
\* the header line followed by full-width chunks, a last chunk of 1 to
\* line_length characters, and no newline at the end.
C5_WrappedAlways ==
    pc = "returned" /\ call.line_length >= 1 => Wrapped

\* C5 amended: that holds for every non-empty sequence; for the empty
\* sequence the text is `>` + header + newline, with no content line.
C5_WrappedNonEmpty ==
    pc = "returned" /\ call.line_length >= 1 =>
        IF call.sequence = <<>> THEN result = Prefix ELSE Wrapped

\* format("h", "ACGTACGTAC", 4)
C5_Witness ==
    /\ pc = "returned"
    /\ call.header = <<"h">>
    /\ call.line_length = 4
    /\ result = <<">", "h", "\n", "A", "C", "G", "T", "\n",
                  "A", "C", "G", "T", "\n", "A", "C">>

----------------------------------------------------------------------------
(* C6 *)

HeaderLine == <<">">> \o fasta_header \o <<"\n">>

\* the record main prints for feature f
RecordFor(f) ==
    [kind |-> "fasta",
     text |-> HeaderLine \o get_sequence(sequence_data, f[1], f[2], f[3], f[4])]

\* C6: with no feature main prints one no-match message and no record; with
\* one feature one record and no warning; with n > 1 features one warning
\* before the first record and then n records in feature order; every
\* record carries the header type:attribute:value.
C6_Dispatch ==
    /\ \A k \in 1..Len(output) :
          output[k].kind = "fasta" => startswith(output[k].text, HeaderLine)
    /\ Len(features) > 1 /\ output # <<>> =>
          /\ output[1].kind = "warning"
          /\ \A k \in 2..Len(output) : output[k].kind = "fasta"
    /\ pc = "done" =>
          IF features = <<>>
          THEN Len(output) = 1 /\ output[1].kind = "no_features"
          ELSE IF Len(features) = 1
          THEN output = <<RecordFor(features[1])>>
          ELSE /\ Len(output) = Len(features) + 1
               /\ \A k \in 1..Len(features) :
                     output[k + 1] = RecordFor(features[k])

\* three features, all extracted, the first two different
C6_Witness ==
    /\ pc = "done"
    /\ Len(features) = 3
    /\ Len(output) = 4
    /\ output[2] # output[3]

----------------------------------------------------------------------------
(* C7, C8, C10 *)

\* C7: an annotation-mode, type-matching 9-column line with a token that
\* holds no `=` ends the parse in a MalformedInput error.
C7_MalformedInput ==
    \A j \in 1..Len(read) :
        (/\ AnnotationModeAt(j)
         /\ TypeMatching9(j)
         /\ \E t \in 1..Len(Tokens(j)) : EqCount(Tokens(j)[t]) = 0)
        => pc = "raised" /\ error = "MalformedInput"

\* C8: a line that does not begin with `>`, read after the ##FASTA marker
\* and before any header, ends the parse in a MalformedInput error and adds
\* nothing to the sequence map.
C8_MalformedInput ==
    \A j \in 1..Len(read) :
        (/\ \E k \in 1..(j - 1) : Line(k) = FASTA_MARK
         /\ ~MarkerLike(j)
         /\ \A k \in 1..j : ~IsHeader(k))
        => pc = "raised" /\ error = "MalformedInput" /\ DOMAIN sequence_data = {}

\* line j is one the first-`=` rule parses
Covered(j) == AnnotationModeAt(j) /\ TypeMatching9(j) /\ WellFormed(j)

\* C10: a type-matching 9-column line whose tokens all hold at least one `=`
\* never makes the parse fail, and gives a record exactly when the value
\* after the first `=` of the attribute_key token equals attribute_value.
C10_FirstEqualsSplit ==
    /\ \A j \in 1..Len(read) :
          Covered(j) => ~(pc = "raised" /\ j = Len(read))
    /\ (/\ pc # "raised"
        /\ \A j \in 1..Len(read) :
              AnnotationModeAt(j) /\ TypeMatching9(j) => Covered(j))
       => FeaturesAre(Qualifying)

====
